---- MODULE Spec2Model ----
(***************************************************************************)
(* Model of the checkpointed embed-and-upload pipeline                     *)
(* (scripts/embed_and_upload.py with utils/embeddings.py,                  *)
(* utils/azure_search.py and utils/data_processing.py).                    *)
(*                                                                         *)
(* The row table df is a sequence of rows; position k is the pandas index  *)
(* label k-1.  A string is modelled by a record [kind, detail, len]: kind  *)
(* names the literal (or "exception" for str(e)), detail names the remote  *)
(* text the string was built from ("none" for a literal), len its length.  *)
(* A timestamp is the value of a logical clock; NaT is 0.                  *)
(***************************************************************************)
EXTENDS Integers, Sequences, FiniteSets, TLC

\* ---------------------------------------------------------------- bounds
NumRows == 3
MaxBatch == 2
MaxCkptEvery == 2
MaxAttempts == 3
MaxRuns == 2
MaxOver == 1
MaxDeletes == 2

\* ------------------------------------------------------ program constants
ErrCap == 2000

NaT == 0

Min(a, b) == IF a < b THEN a ELSE b

\* ---------------------------------------------------------------- strings
EmptyStr == [kind |-> "", detail |-> "none", len |-> 0]
NaNStr == [kind |-> "NaN", detail |-> "none", len |-> 0]
EmbedFailedMsg == [kind |-> "Embedding generation failed", detail |-> "none", len |-> 27]
UploadFailedMsg == [kind |-> "Upload to Azure Search failed", detail |-> "none", len |-> 29]

\* str(e) of an exception e carrying the text e.detail of length e.len
StrOf(e) == [kind |-> "exception", detail |-> e.detail, len |-> e.len]

\* s[:n]
Truncate_None(s, n) == s
Truncate(s, n) == [s EXCEPT !.len = Min(s.len, n)]

\* ------------------------------------------------------- remote responses
\* What the embedding endpoint can answer to one POST: a vector, no answer,
\* a non-success status, or a 200 whose JSON lacks data[0].embedding.
EmbedResponses == {"ok", "transport_error", "http_error", "missing_field"}

\* The lengths of the exception texts an upload can raise with.
ExcLens == {ErrCap + MaxOver}

\* What the index service can answer to one upload POST.
UploadResponses ==
    {[kind |-> "ok", detail |-> "none", len |-> 0],
     [kind |-> "rejected", detail |-> "service_detail", len |-> 0]}
    \cup {[kind |-> "transport_error", detail |-> "exception_text", len |-> n] : n \in ExcLens}

\* get_embedding: the vector, None (the sentinel), or an exception that is
\* not a RequestException (KeyError/IndexError/TypeError of the subscripts).
GetEmbedding(resp) ==
    IF resp = "ok" THEN "vector"
    ELSE IF resp \in {"transport_error", "http_error"} THEN "None"
    ELSE "raise"

\* upload_documents: True on status 200, False on any other status; an
\* exception of requests.post is not caught there.
UploadDocuments(resp) ==
    IF resp.kind = "ok" THEN "True"
    ELSE IF resp.kind = "rejected" THEN "False"
    ELSE "raise"

\* ---------------------------------------------------------------- datetimes
\* A datetime text is a record [date, time, zone]: "2024-11-01" has no time
\* and no zone, "2024-11-01T10:00:00+02:00" has both; zone "NaN" is the
\* missing value.
DtNull == [date |-> "", time |-> "", zone |-> "NaN"]
DtInvalid == [date |-> "not a date", time |-> "", zone |-> ""]
DtNaive == [date |-> "2024-11-01", time |-> "", zone |-> ""]
DtOffset == [date |-> "2024-11-01", time |-> "10:00:00", zone |-> "+02:00"]

\* The datetime columns a source file can hold: nothing usable, a naive
\* date next to unparsable text, or texts that carry an offset.
SourceDates ==
    {[k \in 1..NumRows |-> DtNull],
     [k \in 1..NumRows |-> IF k = 1 THEN DtNaive ELSE DtInvalid],
     [k \in 1..NumRows |-> DtOffset]}

\* pd.to_datetime(..., errors="coerce") of one value: a timestamp
\* [date, time, tz] with tz "naive" when the text has no zone, or NaT.
ParsedNaT == [date |-> "", time |-> "", tz |-> "NaT"]
ToDatetime(v) ==
    IF v.zone = "NaN" \/ v.date = "not a date" THEN ParsedNaT
    ELSE [date |-> v.date,
          time |-> IF v.time = "" THEN "00:00:00" ELSE v.time,
          tz |-> IF v.zone = "" THEN "naive" ELSE IF v.zone = "Z" THEN "UTC" ELSE v.zone]

\* .dt.tz_localize("UTC") of one value of a naive column
TzLocalize(p) == IF p.tz = "naive" THEN [p EXCEPT !.tz = "UTC"] ELSE p

\* .dt.strftime("%Y-%m-%dT%H:%M:%SZ") of one value: the Z is a literal
Strftime(p) ==
    IF p.tz = "NaT" THEN DtNull ELSE [date |-> p.date, time |-> p.time, zone |-> "Z"]

\* format_datetime_column raises (TypeError: Already tz-aware) when the parsed
\* column is tz-aware, that is when its texts carry a zone.
FormatRaises(d) ==
    \E k \in DOMAIN d : ToDatetime(d[k].dt).tz \notin {"naive", "NaT"}

\* format_datetime_column on a column that parses to naive timestamps
FormatDatetimeColumn(d) ==
    [k \in DOMAIN d |-> [d[k] EXCEPT !.dt = Strftime(TzLocalize(ToDatetime(@)))]]

\* format_datetime_for_azure: keep a text that ends in Z or has + or - after
\* its tenth character, append Z to any other
FormatDatetimeForAzure(v) ==
    IF v.zone # "" THEN v ELSE [v EXCEPT !.zone = "Z"]

\* --------------------------------------------------------------- the table
\* load_csv: the rows of the source, without tracking columns (a missing
\* column reads as NaN / NaT in every row).
LoadCsv(src) ==
    [k \in 1..NumRows |->
        [Id |-> k, dt |-> src[k], status |-> "NaN", error |-> NaNStr, at |-> NaT]]

\* df.head(n)
HeadSeq_Tail(s, n) == SubSeq(s, Len(s) - Min(n, Len(s)) + 1, Len(s))
HeadSeq(s, n) == SubSeq(s, 1, Min(n, Len(s)))

\* init_embedding_tracking: add the missing columns, fill NaN
InitEmbeddingTracking_Reset(d) ==
    [k \in DOMAIN d |-> [d[k] EXCEPT !.status = "pending", !.error = EmptyStr]]
InitEmbeddingTracking(d) ==
    [k \in DOMAIN d |->
        [d[k] EXCEPT !.status = IF @ = "NaN" THEN "pending" ELSE @,
                     !.error = IF @ = NaNStr THEN EmptyStr ELSE @]]

\* df[df["embedded_status"] != "success"], as the index labels in table order
RECURSIVE PendingFrom(_, _)
PendingFrom(d, k) ==
    IF k > Len(d) THEN <<>>
    ELSE (IF d[k].status # "success" THEN <<k>> ELSE <<>>) \o PendingFrom(d, k + 1)

Pending_All(d) == [k \in 1..Len(d) |-> k]
Pending(d) == PendingFrom(d, 1)

\* (df["embedded_status"] != "success").sum()
Remaining_PendingOnly(d) == Cardinality({k \in DOMAIN d : d[k].status = "pending"})
Remaining(d) == Cardinality({k \in DOMAIN d : d[k].status # "success"})

\* The three writes of each outcome of a row
RowEmbedFailed_NoAt(row, now) == [row EXCEPT !.status = "failed", !.error = EmbedFailedMsg]
RowEmbedFailed_NoError(row, now) == [row EXCEPT !.status = "failed", !.at = now]
RowEmbedFailed(row, now) ==
    [row EXCEPT !.status = "failed", !.error = EmbedFailedMsg, !.at = now]

RowUploadSuccess_NullsDate(row, now) ==
    [row EXCEPT !.status = "success", !.error = EmptyStr, !.at = now, !.dt = DtNull]
RowUploadSuccess_KeepError(row, now) == [row EXCEPT !.status = "success", !.at = now]
RowUploadSuccess(row, now) ==
    [row EXCEPT !.status = "success", !.error = EmptyStr, !.at = now]

RowUploadFailed_EmbedMsg(row, now) ==
    [row EXCEPT !.status = "failed", !.error = EmbedFailedMsg, !.at = now]
RowUploadFailed(row, now) ==
    [row EXCEPT !.status = "failed", !.error = UploadFailedMsg, !.at = now]

RowUploadException(row, e, now) ==
    [row EXCEPT !.status = "failed", !.error = Truncate(StrOf(e), ErrCap), !.at = now]

\* The parquet file: the rows in table order without the index; a missing
\* text is a null of a string column, NaT a null of the timestamp column.
NullStr == [kind |-> "null", detail |-> "none", len |-> 0]
NullDt == [date |-> "", time |-> "", zone |-> "null"]
NullTs == -1

ToParquet_NoTimestamp(d) ==
    [k \in 1..Len(d) |->
        [Id |-> d[k].Id,
         dt |-> IF d[k].dt = DtNull THEN NullDt ELSE d[k].dt,
         status |-> d[k].status,
         error |-> IF d[k].error = NaNStr THEN NullStr ELSE d[k].error,
         at |-> NullTs]]
ToParquet(d) ==
    [k \in 1..Len(d) |->
        [Id |-> d[k].Id,
         dt |-> IF d[k].dt = DtNull THEN NullDt ELSE d[k].dt,
         status |-> d[k].status,
         error |-> IF d[k].error = NaNStr THEN NullStr ELSE d[k].error,
         at |-> IF d[k].at = NaT THEN NullTs ELSE d[k].at]]

FromParquet(rows) ==
    [k \in 1..Len(rows) |->
        [Id |-> rows[k].Id,
         dt |-> IF rows[k].dt = NullDt THEN DtNull ELSE rows[k].dt,
         status |-> rows[k].status,
         error |-> IF rows[k].error = NullStr THEN NaNStr ELSE rows[k].error,
         at |-> IF rows[k].at = NullTs THEN NaT ELSE rows[k].at]]

\* save_checkpoint: df.to_parquet(path, index=False) replaces the file
NoCheckpoint == [exists |-> FALSE, rows |-> <<>>]
SaveCheckpoint(d) == [exists |-> TRUE, rows |-> ToParquet(d)]

\* load_checkpoint: None when the file does not exist, else the table
LoadCheckpoint(f) ==
    IF f.exists THEN [found |-> TRUE, rows |-> FromParquet(f.rows)]
    ELSE [found |-> FALSE, rows |-> <<>>]

Event(op, row, res, detail, len) ==
    [op |-> op, row |-> row, res |-> res, detail |-> detail, len |-> len]

\* ------------------------------------------------- index and search calls
\* What comes back from one request to the search service: a response with a
\* status and a body, or an exception of requests (no response).
Http(code, body) == [kind |-> "response", code |-> code, body |-> body]
TransportError == [kind |-> "transport_error", code |-> 0, body |-> "none"]

DeleteAnswers == {Http(200, "none"), Http(204, "none"), Http(404, "none"),
                  Http(403, "error"), Http(500, "error"), TransportError}
CreateAnswers == {Http(201, "index"), Http(204, "none"), Http(400, "error"),
                  Http(403, "error"), TransportError}
InfoAnswers == {Http(200, "index"), Http(404, "error"), TransportError}
SearchAnswers == {Http(200, "hits"), Http(200, "no_value"), Http(200, "not_json"),
                  Http(400, "error"), Http(403, "error"), TransportError}

\* delete_index: requests.delete is not guarded
DeleteIndex_NotFoundFails(ans) ==
    IF ans.kind = "transport_error" THEN "raise"
    ELSE IF ans.code \in {200, 204} THEN "True"
    ELSE "False"
DeleteIndex(ans) ==
    IF ans.kind = "transport_error" THEN "raise"
    ELSE IF ans.code \in {200, 204} THEN "True"
    ELSE IF ans.code = 404 THEN "True"
    ELSE "False"

\* create_index: requests.put is not guarded
CreateIndex(ans) ==
    IF ans.kind = "transport_error" THEN "raise"
    ELSE IF ans.code \in {201, 204} THEN "True"
    ELSE "False"

\* get_index_info: the index definition on 200, None otherwise
GetIndexInfo(ans) ==
    IF ans.kind = "transport_error" THEN "raise"
    ELSE IF ans.code = 200 THEN "definition"
    ELSE "None"

\* The tail of text_search, vector_search and hybrid_search: response.json()
\* on 200, the empty dictionary on any other status.
SearchResult(ans) ==
    IF ans.kind = "transport_error" THEN "raise"
    ELSE IF ans.code = 200 THEN (IF ans.body = "not_json" THEN "raise" ELSE ans.body)
    ELSE "empty"

SearchFunction(mode) ==
    IF mode = "text" THEN "text_search"
    ELSE IF mode = "vector" THEN "vector_search"
    ELSE "hybrid_search"

\* print_results
PrintResults(results) ==
    IF results \in {"empty", "no_value"} THEN "No results found" ELSE "Search Results"

Call(op, res, code) == [op |-> op, res |-> res, code |-> code]
Return(fn, value) == [fn |-> fn, value |-> value]

\* A command-line invocation: the program and its arguments, where it is,
\* the requests it has sent with what came back, what its functions
\* returned ("raise" for an exception), what it printed, its exit status.
CliIdle ==
    [prog |-> "none", mode |-> "none", delete_existing |-> FALSE, pc |-> "idle",
     calls |-> <<>>, returns |-> <<>>, printed |-> <<>>, exit |-> "running"]

\* ------------------------------------------------------------------- state
VARIABLES
    pc,               \* where the process is: idle, loop, embed, upload, done, crashed,
                      \* killed, load_failed
    source,           \* the datetime column of the source file
    df,               \* the in-memory row table
    ckpt,             \* the checkpoint file
    batch,            \* index labels selected by the running process_batch
    i,                \* rows of batch the for loop has finished
    success_count,
    fail_count,
    batch_size,       \* --batch-size
    checkpoint_every, \* process_batch's checkpoint_every
    resumed,          \* the run took its table from the checkpoint
    clock,            \* logical time, one tick per attempted row
    runs,             \* processes started so far
    log,              \* outbound calls, saves and sleeps since process_batch was entered
    persisted,        \* the table as this run last saved it, or as it started with
    cli               \* the invocation of search_index.py or create_index.py

vars == <<pc, source, df, ckpt, batch, i, success_count, fail_count, batch_size,
          checkpoint_every, resumed, clock, runs, log, persisted, cli>>

Init ==
    /\ pc = "idle"
    /\ source \in SourceDates
    /\ df = <<>>
    /\ ckpt = NoCheckpoint
    /\ batch = <<>>
    /\ i = 0
    /\ success_count = 0
    /\ fail_count = 0
    /\ batch_size = 1
    /\ checkpoint_every = 1
    /\ resumed = FALSE
    /\ clock = 0
    /\ runs = 0
    /\ log = <<>>
    /\ persisted = <<>>
    /\ cli = CliIdle

\* What a starting process finds around it: everything in place, a required
\* configuration variable unset, or no file at the CSV path.
Environments == {"ok", "missing_config", "missing_csv"}

\* Config._validate, run by "config = Config()" when utils is imported
Validate_Never(e) == "ok"
Validate(e) == IF e = "missing_config" THEN "raise" ELSE "ok"

\* The guard of load_csv: FileNotFoundError when the path does not exist
CsvFound_Always(e) == TRUE
CsvFound(e) == e # "missing_csv"

\* The import of utils, then main up to the batch loop: load (checkpoint or
\* source), --max-rows, format_datetime_column, init_embedding_tracking.  max_rows = 0 stands for "not given".  b is
\* --batch-size; c is the checkpoint_every parameter of process_batch (main
\* leaves it at its default, 250), scaled down to the size of the tables here.
StartRun(e, resume, max_rows, b, c) ==
    /\ pc \in {"idle", "done", "crashed", "killed", "load_failed", "aborted"}
    /\ runs < MaxRuns
    /\ LET validated == Validate(e) = "ok"
           checkpoint == LoadCheckpoint(ckpt)
           fromCkpt == validated /\ resume /\ checkpoint.found
           reads == validated /\ ~fromCkpt
           loaded == IF fromCkpt THEN checkpoint.rows ELSE LoadCsv(source)
           limited == IF max_rows # 0 THEN HeadSeq(loaded, max_rows) ELSE loaded
           table == InitEmbeddingTracking(FormatDatetimeColumn(limited))
       IN /\ resumed' = fromCkpt
          /\ log' = <<Event("validate", 0, Validate(e), e, 0)>>
                    \o (IF reads
                        THEN <<Event("load_csv", 0, IF CsvFound(e) THEN "ok" ELSE "raise",
                                     e, 0)>>
                        ELSE <<>>)
          /\ IF ~validated \/ (reads /\ ~CsvFound(e))
             THEN \* ValueError at import, or FileNotFoundError of load_csv
                  /\ pc' = "aborted"
                  /\ df' = <<>>
                  /\ persisted' = <<>>
             ELSE IF FormatRaises(limited)
             THEN \* the exception of format_datetime_column leaves main
                  /\ pc' = "load_failed"
                  /\ df' = <<>>
                  /\ persisted' = <<>>
             ELSE /\ pc' = "loop"
                  /\ df' = table
                  /\ persisted' = table
    /\ runs' = runs + 1
    /\ batch_size' = b
    /\ checkpoint_every' = c
    /\ batch' = <<>>
    /\ i' = 0
    /\ success_count' = 0
    /\ fail_count' = 0
    /\ UNCHANGED <<cli, source, ckpt, clock>>

\* The head of main's while loop and the entry of process_batch: filter the
\* rows that are not success, take the first batch_size of them.
SelectBatch ==
    /\ pc = "loop"
    /\ IF Remaining(df) = 0
       THEN /\ pc' = "done"
            /\ UNCHANGED <<batch, i, success_count, fail_count, log>>
       ELSE /\ batch' = HeadSeq(Pending(df), batch_size)
            /\ i' = 0
            /\ success_count' = 0
            /\ fail_count' = 0
            /\ log' = <<>>
            /\ pc' = "embed"
    /\ UNCHANGED <<cli, source, df, ckpt, batch_size, checkpoint_every, resumed, clock, runs,
                   persisted>>

\* One iteration of the for loop up to the embedding call and its None branch,
\* at time now.
EmbedStep_Again(resp, now) ==
    /\ pc = "embed"
    /\ i < Len(batch)
    /\ LET idx == batch[i + 1]
           embedding == GetEmbedding(resp)
       IN /\ clock' = now
          /\ log' = Append(log, Event("embed", idx, embedding, resp, 0))
          /\ IF embedding = "raise"
             THEN /\ pc' = "crashed"
                  /\ UNCHANGED <<df, i, fail_count>>
             ELSE IF embedding = "None"
             THEN \* the same row is embedded again
                  /\ df' = [df EXCEPT ![idx] = RowEmbedFailed(df[idx], now)]
                  /\ fail_count' = fail_count + 1
                  /\ i' = i
                  /\ pc' = "embed"
             ELSE /\ pc' = "upload"
                  /\ UNCHANGED <<df, i, fail_count>>
    /\ UNCHANGED <<cli, source, ckpt, batch, success_count, batch_size, checkpoint_every,
                   resumed, runs, persisted>>

EmbedStep(resp, now) ==
    /\ pc = "embed"
    /\ i < Len(batch)
    /\ LET idx == batch[i + 1]
           embedding == GetEmbedding(resp)
       IN /\ clock' = now
          /\ log' = Append(log, Event("embed", idx, embedding, resp, 0))
          /\ IF embedding = "raise"
             THEN \* the exception leaves process_batch and main
                  /\ pc' = "crashed"
                  /\ UNCHANGED <<df, i, fail_count>>
             ELSE IF embedding = "None"
             THEN \* mark failed and continue: no checkpoint, no sleep
                  /\ df' = [df EXCEPT ![idx] = RowEmbedFailed(df[idx], now)]
                  /\ fail_count' = fail_count + 1
                  /\ i' = i + 1
                  /\ pc' = "embed"
             ELSE /\ pc' = "upload"
                  /\ UNCHANGED <<df, i, fail_count>>
    /\ UNCHANGED <<cli, source, ckpt, batch, success_count, batch_size, checkpoint_every,
                   resumed, runs, persisted>>

EmbedRow(resp) ==
    /\ clock < MaxAttempts
    /\ EmbedStep(resp, clock + 1)

\* The rest of the iteration: document, upload, periodic checkpoint, sleep.
UploadRow(resp) ==
    /\ pc = "upload"
    /\ LET idx == batch[i + 1]
           success == UploadDocuments(resp)
           now == clock
           row == IF success = "True" THEN RowUploadSuccess(df[idx], now)
                  ELSE IF success = "False" THEN RowUploadFailed(df[idx], now)
                  ELSE RowUploadException(df[idx], resp, now)
           sc == IF success = "True" THEN success_count + 1 ELSE success_count
           fc == IF success = "True" THEN fail_count ELSE fail_count + 1
           processed == sc + fc
           saving == processed % checkpoint_every = 0
           newdf == [df EXCEPT ![idx] = row]
       IN /\ df' = newdf
          /\ success_count' = sc
          /\ fail_count' = fc
          /\ ckpt' = IF saving THEN SaveCheckpoint(newdf) ELSE ckpt
          /\ persisted' = IF saving THEN newdf ELSE persisted
          /\ log' = log \o <<Event("upload", idx, success, resp.detail, resp.len)>>
                        \o (IF saving THEN <<Event("save", idx, "ok", "none", 0)>> ELSE <<>>)
                        \o <<Event("sleep", idx, "ok", "none", 0)>>
          /\ i' = i + 1
          /\ pc' = "embed"
    /\ UNCHANGED <<cli, source, batch, batch_size, checkpoint_every, resumed, clock, runs>>

\* The end of process_batch (final checkpoint) and the tail of main's loop.
EndBatch ==
    /\ pc = "embed"
    /\ i = Len(batch)
    /\ ckpt' = SaveCheckpoint(df)
    /\ persisted' = df
    /\ IF Remaining(df) = 0
       THEN /\ pc' = "done"
            /\ log' = Append(log, Event("save", 0, "ok", "none", 0))
       ELSE /\ pc' = "loop"
            /\ log' = log \o <<Event("save", 0, "ok", "none", 0),
                               Event("sleep_batch", 0, "ok", "none", 0)>>
    /\ UNCHANGED <<cli, source, df, batch, i, success_count, fail_count, batch_size,
                   checkpoint_every, resumed, clock, runs>>

\* The process is killed: what it held in memory is gone, the checkpoint
\* file stays.
Kill ==
    /\ pc \in {"loop", "embed", "upload"}
    /\ pc' = "killed"
    /\ df' = <<>>
    /\ batch' = <<>>
    /\ i' = 0
    /\ success_count' = 0
    /\ fail_count' = 0
    /\ batch_size' = 1
    /\ checkpoint_every' = 1
    /\ resumed' = FALSE
    /\ log' = <<>>
    /\ persisted' = <<>>
    /\ UNCHANGED <<cli, source, ckpt, clock, runs>>

\* The command lines a run is started with: the smallest and the largest
\* batch size and checkpoint interval, --max-rows absent or one short of the
\* source.
BatchSizes == {1, MaxBatch}
CheckpointIntervals == {1, MaxCkptEvery}
MaxRowsArgs == {0, NumRows - 1}

Next ==
    \/ \E e \in Environments, resume \in BOOLEAN, max_rows \in MaxRowsArgs,
          b \in BatchSizes, c \in CheckpointIntervals :
          StartRun(e, resume, max_rows, b, c)
    \/ SelectBatch
    \/ \E resp \in EmbedResponses : EmbedRow(resp)
    \/ \E resp \in UploadResponses : UploadRow(resp)
    \/ EndBatch
    \/ Kill

Spec == Init /\ [][Next]_vars

\* ------------------------------------------------- one run, left to itself
\* A single run from the source that nobody kills.  The process always takes
\* its next step and every remote call returns, so each step is weakly fair.
\* Time is not capped here: timestamps past MaxAttempts are merged into one.
FairStart(e, max_rows, b, c) ==
    /\ pc = "idle"
    /\ StartRun(e, FALSE, max_rows, b, c)

FairEmbedRow(resp) == EmbedStep(resp, Min(clock + 1, MaxAttempts))

FairNext ==
    \/ \E e \in Environments, max_rows \in MaxRowsArgs, b \in BatchSizes,
          c \in CheckpointIntervals : FairStart(e, max_rows, b, c)
    \/ SelectBatch
    \/ \E resp \in EmbedResponses : FairEmbedRow(resp)
    \/ \E resp \in UploadResponses : UploadRow(resp)
    \/ EndBatch

FairSpec ==
    /\ Init
    /\ [][FairNext]_vars
    /\ WF_vars(SelectBatch)
    /\ WF_vars(\E resp \in EmbedResponses : FairEmbedRow(resp))
    /\ WF_vars(\E resp \in UploadResponses : UploadRow(resp))
    /\ WF_vars(EndBatch)

\* ------------------------------------------------------ the query script
\* The variables of the embed-and-upload run, which the other scripts leave
\* alone.
run_vars == <<pc, source, df, ckpt, batch, i, success_count, fail_count, batch_size,
              checkpoint_every, resumed, clock, runs, log, persisted>>

SearchModes == {"text", "vector", "hybrid"}

\* search_index.py main up to the call of the search function
SearchIndexMain(mode) ==
    /\ cli.pc = "idle"
    /\ cli' = [cli EXCEPT !.prog = "search_index", !.mode = mode,
                          !.pc = IF mode = "text" THEN "request" ELSE "embed"]
    /\ UNCHANGED run_vars

\* The search function has ended with value: main prints the results and
\* falls off its end, or its except clause prints the exception and exits 1.
SearchDone(c, said, value) ==
    IF value = "raise"
    THEN [c EXCEPT !.returns = Append(@, Return(SearchFunction(c.mode), value)),
                   !.printed = @ \o <<"Search failed">>,
                   !.pc = "exit", !.exit = "nonzero"]
    ELSE [c EXCEPT !.returns = Append(@, Return(SearchFunction(c.mode), value)),
                   !.printed = @ \o said \o <<PrintResults(value)>>,
                   !.pc = "exit", !.exit = "zero"]

\* vector_search and hybrid_search: embed the query first
SearchGetEmbedding_SearchAnyway(resp) ==
    /\ cli.pc = "embed"
    /\ cli' = [cli EXCEPT !.calls = Append(@, Call("get_embedding", GetEmbedding(resp), 0)),
                          !.pc = "request"]
    /\ UNCHANGED run_vars
SearchGetEmbedding(resp) ==
    /\ cli.pc = "embed"
    /\ LET embedding == GetEmbedding(resp)
           called == [cli EXCEPT !.calls = Append(@, Call("get_embedding", embedding, 0))]
       IN cli' = IF embedding = "vector" THEN [called EXCEPT !.pc = "request"]
                 ELSE IF embedding = "None"
                 THEN SearchDone(called, <<"Failed to embed query">>, "empty")
                 ELSE SearchDone(called, <<>>, "raise")
    /\ UNCHANGED run_vars

\* The search request of the three functions and the rest of main
SearchPost(ans) ==
    /\ cli.pc = "request"
    /\ cli.prog = "search_index"
    /\ LET results == SearchResult(ans)
           called == [cli EXCEPT !.calls = Append(@, Call("search", ans.kind, ans.code))]
       IN cli' = SearchDone(called,
                            IF results = "empty" THEN <<"search failed">> ELSE <<>>,
                            results)
    /\ UNCHANGED run_vars

\* ------------------------------------------------------ the index script
\* create_index.py main up to its first request
CreateIndexMain(delete_existing) ==
    /\ cli.pc = "idle"
    /\ cli' = [cli EXCEPT !.prog = "create_index", !.delete_existing = delete_existing,
                          !.pc = IF delete_existing THEN "delete" ELSE "create"]
    /\ UNCHANGED run_vars

\* An exception no one catches ends the script with a traceback, status 1.
Uncaught(c, fn) ==
    [c EXCEPT !.returns = Append(@, Return(fn, "raise")),
              !.printed = Append(@, "Traceback"),
              !.pc = "exit", !.exit = "nonzero"]

\* --delete-existing: delete_index(), its result dropped
CreateIndexDelete(ans) ==
    /\ cli.pc = "delete"
    /\ LET deleted == DeleteIndex(ans)
           called == [cli EXCEPT !.calls = Append(@, Call("delete", ans.kind, ans.code))]
       IN cli' = IF deleted = "raise" THEN Uncaught(called, "delete_index")
                 ELSE [called EXCEPT !.returns = Append(@, Return("delete_index", deleted)),
                                     !.printed = IF deleted = "False"
                                                 THEN Append(@, "Failed to delete index")
                                                 ELSE @,
                                     !.pc = "create"]
    /\ UNCHANGED run_vars

\* success = create_index(INDEX_SCHEMA), exit 1 when it is False
CreateIndexPut(ans) ==
    /\ cli.pc = "create"
    /\ LET success == CreateIndex(ans)
           called == [cli EXCEPT !.calls = Append(@, Call("put", ans.kind, ans.code))]
           returned == [called EXCEPT !.returns = Append(@, Return("create_index", success))]
       IN cli' = IF success = "raise" THEN Uncaught(called, "create_index")
                 ELSE IF success = "True" THEN [returned EXCEPT !.pc = "verify"]
                 ELSE [returned EXCEPT !.printed = @ \o <<"Failed to create index",
                                                          "Index creation failed">>,
                                       !.pc = "exit", !.exit = "nonzero"]
    /\ UNCHANGED run_vars

\* get_index_info() after a successful create, then the end of main
CreateIndexVerify(ans) ==
    /\ cli.pc = "verify"
    /\ LET info == GetIndexInfo(ans)
           called == [cli EXCEPT !.calls = Append(@, Call("get", ans.kind, ans.code))]
       IN cli' = IF info = "raise" THEN Uncaught(called, "get_index_info")
                 ELSE [called EXCEPT !.returns = Append(@, Return("get_index_info", info)),
                                     !.printed = IF info = "None"
                                                 THEN Append(@, "Failed to retrieve index")
                                                 ELSE @,
                                     !.pc = "exit", !.exit = "zero"]
    /\ UNCHANGED run_vars

\* delete_index() called on its own, any number of times in a row
DeleteIndexCall(ans) ==
    /\ cli.prog \in {"none", "delete_index"}
    /\ cli.pc \in {"idle", "returned"}
    /\ Len(cli.calls) < MaxDeletes
    /\ LET deleted == DeleteIndex(ans)
       IN cli' = [cli EXCEPT !.prog = "delete_index",
                             !.calls = Append(@, Call("delete", ans.kind, ans.code)),
                             !.returns = Append(@, Return("delete_index", deleted)),
                             !.printed = IF deleted = "False"
                                         THEN Append(@, "Failed to delete index")
                                         ELSE @,
                             !.pc = IF deleted = "raise" THEN "raised" ELSE "returned"]
    /\ UNCHANGED run_vars

CliNext ==
    \/ \E mode \in SearchModes : SearchIndexMain(mode)
    \/ \E resp \in EmbedResponses : SearchGetEmbedding(resp)
    \/ \E ans \in SearchAnswers : SearchPost(ans)
    \/ \E delete_existing \in BOOLEAN : CreateIndexMain(delete_existing)
    \/ \E ans \in DeleteAnswers : CreateIndexDelete(ans)
    \/ \E ans \in CreateAnswers : CreateIndexPut(ans)
    \/ \E ans \in InfoAnswers : CreateIndexVerify(ans)
    \/ \E ans \in DeleteAnswers : DeleteIndexCall(ans)

CliSpec == Init /\ [][CliNext]_vars

\* ------------------------------------------------------- history helpers
IsCall(ev) == ev.op \in {"embed", "upload"}

\* The events a step appends (process_batch starts a new log on entry).
NewEvents ==
    IF Len(log') >= Len(log) /\ SubSeq(log', 1, Len(log)) = log
    THEN SubSeq(log', Len(log) + 1, Len(log'))
    ELSE log'

\* The position of index label r in the running batch (0 when not selected).
PosInBatch(r) == IF \E p \in DOMAIN batch : batch[p] = r
                 THEN CHOOSE p \in DOMAIN batch : batch[p] = r
                 ELSE 0

EmbeddedOk(r) == \E e \in DOMAIN log : log[e].op = "embed" /\ log[e].row = r /\ log[e].res = "vector"
UploadedOk(r) == \E u \in DOMAIN log : log[u].op = "upload" /\ log[u].row = r /\ log[u].res = "True"

\* ------------------------------------------------------------------ claims

\* C1: within a run, a row whose status is success is never passed to
\* get_embedding or upload_documents by any step of the process, and no step
\* of the process changes its tracking fields.
C1_SuccessRowsUntouched ==
    [][(runs' = runs /\ pc' # "killed") =>
         \A k \in DOMAIN df :
            df[k].status = "success" =>
               /\ df'[k] = df[k]
               /\ \A j \in DOMAIN NewEvents :
                     IsCall(NewEvents[j]) => NewEvents[j].row # k]_vars

\* A resumed run is calling out for a selected row while a row that the
\* checkpoint already had as success sits outside the batch.
C1_Witness ==
    /\ resumed
    /\ Len(log) > 0
    /\ log[1].op = "embed"
    /\ \E k \in DOMAIN df :
          /\ df[k].status = "success"
          /\ PosInBatch(k) = 0
          /\ k < batch[1]

\* C2: the batch process_batch selects is the first min(B, number of
\* non-success rows) index labels, in table order, of the rows whose status
\* is not success (pending and failed alike).
IsFirstNonSuccess(bt, d, B) ==
    LET NS == {k \in DOMAIN d : d[k].status # "success"}
    IN /\ Len(bt) = Min(B, Cardinality(NS))
       /\ \A j \in DOMAIN bt : bt[j] \in NS
       /\ \A j \in 1..(Len(bt) - 1) : bt[j] < bt[j + 1]
       /\ \A k \in NS : (\E j \in DOMAIN bt : bt[j] = k) \/ (\A j \in DOMAIN bt : bt[j] < k)

C2_BatchSelection ==
    [][(pc = "loop" /\ pc' = "embed") => IsFirstNonSuccess(batch', df, batch_size)]_vars

\* A batch was just selected that skips a success row, holds a failed row
\* and leaves non-success rows behind because of the batch size.
C2_Witness ==
    /\ pc = "embed"
    /\ i = 0
    /\ log = <<>>
    /\ Len(batch) = batch_size
    /\ Remaining(df) > batch_size
    /\ \E k \in DOMAIN df : df[k].status = "success" /\ k < batch[1]
    /\ \E j \in DOMAIN batch : df[batch[j]].status = "failed"

\* C3: every row has one of the three statuses, and its embedded_at is set
\* exactly when the status is success or failed.
C3_TimestampIffAttempted ==
    \A k \in DOMAIN df :
       /\ df[k].status \in {"pending", "success", "failed"}
       /\ (df[k].at # NaT) <=> (df[k].status \in {"success", "failed"})

\* A table holding a pending row, a row failed at the embedding step and a
\* success row at once.
C3_Witness ==
    /\ \E k \in DOMAIN df : df[k].status = "pending" /\ df[k].at = NaT
    /\ \E k \in DOMAIN df : df[k].status = "failed" /\ df[k].error = EmbedFailedMsg
    /\ \E k \in DOMAIN df : df[k].status = "success" /\ df[k].at # NaT

\* C4: when process_batch is over, every selected row was attempted in it
\* and ended success or failed, and the run goes on.
C4_FailuresIsolated ==
    pc \in {"loop", "done", "crashed"} =>
       /\ pc # "crashed"
       /\ \A j \in DOMAIN batch :
             /\ df[batch[j]].status \in {"success", "failed"}
             /\ \E e \in DOMAIN log : log[e].op = "embed" /\ log[e].row = batch[j]

\* C5: every embedding response of one of the three remote-error categories
\* makes get_embedding return the sentinel and leaves the row failed, every
\* failed upload leaves the row failed, and no exception leaves process_batch.
C5_RemoteErrorsConverted ==
    /\ \A e \in DOMAIN log :
          (log[e].op = "embed" /\ log[e].detail # "ok") =>
             (log[e].res = "None" /\ df[log[e].row].status = "failed")
    /\ \A u \in DOMAIN log :
          (log[u].op = "upload" /\ log[u].res # "True") => df[log[u].row].status = "failed"
    /\ pc # "crashed"

\* C6: a row whose embedding call returned the sentinel is failed with the
\* embedding error recorded and embedded_at set, has no upload call, and the
\* loop has moved on: what follows in the log is the embedding call of the
\* next selected row (or the final save when it was the last one).
C6_EmbeddingSentinel ==
    \A e \in DOMAIN log :
       (log[e].op = "embed" /\ log[e].res = "None") =>
          LET r == log[e].row
              p == PosInBatch(r)
          IN /\ p > 0
             /\ df[r].status = "failed"
             /\ df[r].error = EmbedFailedMsg
             /\ df[r].at # NaT
             /\ \A u \in DOMAIN log : ~(log[u].op = "upload" /\ log[u].row = r)
             /\ i >= p
             /\ e < Len(log) =>
                   IF p < Len(batch)
                   THEN log[e + 1].op = "embed" /\ log[e + 1].row = batch[p + 1]
                   ELSE log[e + 1].op = "save"

\* The sentinel came back for a row and the next row's embedding call followed.
C6_Witness ==
    \E e \in DOMAIN log :
       /\ log[e].op = "embed"
       /\ log[e].res = "None"
       /\ e < Len(log)
       /\ log[e + 1].op = "embed"

\* C7: a selected row is success exactly when its embedding call returned a
\* vector and its upload call returned success, and then its error is empty;
\* after the sentinel, an upload returning failure or an upload raising, it
\* is failed.
C7_SuccessIffBothOk ==
    \A p \in DOMAIN batch :
       LET r == batch[p]
       IN /\ (df[r].status = "success") <=> (EmbeddedOk(r) /\ UploadedOk(r))
          /\ df[r].status = "success" => df[r].error = EmptyStr
          /\ (\E e \in DOMAIN log :
                 /\ log[e].row = r
                 /\ \/ log[e].op = "embed" /\ log[e].res = "None"
                    \/ log[e].op = "upload" /\ log[e].res \in {"False", "raise"})
             => df[r].status = "failed"

\* A row the checkpoint still holds as failed with an error has just been
\* uploaded, while another row of the same batch failed.
C7_Witness ==
    /\ resumed
    /\ \E p \in DOMAIN batch :
          /\ UploadedOk(batch[p])
          /\ df[batch[p]].status = "success"
          /\ batch[p] \in DOMAIN ckpt.rows
          /\ ckpt.rows[batch[p]].status = "failed"
          /\ ckpt.rows[batch[p]].error # EmptyStr
    /\ \E p \in DOMAIN batch : df[batch[p]].status = "failed"

\* C8 as stated: a rejected upload leaves the row failed with the detail the
\* service reported in its error field.
C8_RejectionDetailCaptured ==
    \A u \in DOMAIN log :
       (log[u].op = "upload" /\ log[u].res = "False") =>
          /\ df[log[u].row].status = "failed"
          /\ df[log[u].row].error.detail = log[u].detail

\* C8 as amended: a rejected upload leaves the row failed with the fixed
\* message "Upload to Azure Search failed", which carries no text of the
\* service's response.
C8_RejectionFixedMessage ==
    \A u \in DOMAIN log :
       (log[u].op = "upload" /\ log[u].res = "False") =>
          /\ df[log[u].row].status = "failed"
          /\ df[log[u].row].error = UploadFailedMsg
          /\ df[log[u].row].error.detail = "none"

\* The service rejected the upload of a row and reported a detail.
C8_Witness ==
    \E u \in DOMAIN log :
       /\ log[u].op = "upload"
       /\ log[u].res = "False"
       /\ log[u].detail = "service_detail"
       /\ df[log[u].row].status = "failed"

\* C9: no stored error is longer than the cap, in the table or in the
\* checkpoint.
C9_ErrorBounded ==
    /\ \A k \in DOMAIN df : df[k].error.len <= ErrCap
    /\ \A k \in DOMAIN ckpt.rows : ckpt.rows[k].error.len <= ErrCap

\* An upload raised with a text longer than the cap and the row holds the
\* text cut to the cap.
C9_Witness ==
    \E u \in DOMAIN log :
       /\ log[u].op = "upload"
       /\ log[u].res = "raise"
       /\ log[u].len > ErrCap
       /\ df[log[u].row].error.kind = "exception"
       /\ df[log[u].row].error.len = ErrCap

\* C10: between the last outbound call of a row and the first outbound call
\* of the next row of the batch there is exactly one rate-limit delay.
C10_DelayAfterEveryRow ==
    \A e \in DOMAIN log :
       (log[e].op = "embed" /\ e > 1) =>
          LET prev == CHOOSE u \in 1..(e - 1) :
                         /\ IsCall(log[u])
                         /\ \A v \in (u + 1)..(e - 1) : ~IsCall(log[v])
          IN Cardinality({s \in (prev + 1)..(e - 1) : log[s].op = "sleep"}) = 1

\* C11: whenever the number of rows the batch has processed is a multiple of
\* checkpoint_every, the table was saved after that row and before the next
\* one; and when process_batch has returned, the table was saved once more
\* and the checkpoint holds the table as it is.
C11_PeriodicCheckpoint ==
    /\ \A p \in 1..i :
          (p % checkpoint_every = 0) =>
             \E s \in DOMAIN log : log[s].op = "save" /\ log[s].row = batch[p]
    /\ (pc \in {"loop", "done"} /\ Len(batch) > 0) =>
          /\ \E s \in DOMAIN log : log[s].op = "save" /\ log[s].row = 0
          /\ ckpt = SaveCheckpoint(df)

\* C12: while a run is going, the rows whose tracking fields differ from what
\* the run last persisted (or started with) number at most checkpoint_every.
UnsavedRows == {k \in DOMAIN df : df[k] # persisted[k]}

C12_LostProgressBounded ==
    pc \in {"loop", "embed", "upload"} => Cardinality(UnsavedRows) <= checkpoint_every

\* C13: the run ends normally only with every row success; the loop enters
\* process_batch exactly when a row is not success; and after a batch the
\* inter-batch delay is taken exactly when a row is still not success.
AllSuccess(d) == \A k \in DOMAIN d : d[k].status = "success"

C13_OuterLoop ==
    [][/\ pc' = "done" => AllSuccess(df')
       /\ (pc = "loop" /\ pc' # "killed") => (pc' = "embed" <=> ~AllSuccess(df))
       /\ (pc = "embed" /\ pc' \in {"loop", "done"}) =>
             /\ (\E j \in DOMAIN NewEvents : NewEvents[j].op = "sleep_batch")
                   <=> ~AllSuccess(df')
             /\ pc' = "loop" <=> ~AllSuccess(df')]_vars

\* A run from the source has ended normally after more than one batch.
C13_Witness ==
    /\ pc = "done"
    /\ ~resumed
    /\ Len(df) >= 2
    /\ Len(batch) = 1
    /\ AllSuccess(df)
    /\ log[Len(log)].op = "save"

\* C14: in a run left to itself, every row that is not success is eventually
\* passed to get_embedding in some batch (or the run has crashed), whatever
\* happens to the other rows.
Attempted(k) == \E e \in DOMAIN log : log[e].op = "embed" /\ log[e].row = k

C14_EveryRowEventuallyAttempted ==
    \A k \in 1..NumRows :
       (pc = "embed" /\ k \in DOMAIN df /\ df[k].status # "success")
          ~> (Attempted(k) \/ pc = "crashed")

\* C15: a run started with --resume over an existing checkpoint reaches the
\* batch loop with the checkpoint's rows and tracking fields (the source is not
\* read), so the rows it goes on to process are those the checkpoint holds as
\* not success; a run that finds no checkpoint file starts from the source,
\* every row pending.
SameTracking(row, saved) ==
    /\ row.Id = saved.Id
    /\ row.status = saved.status
    /\ row.error = saved.error
    /\ row.at = saved.at

C15_ResumeTakesCheckpoint ==
    [][runs' = runs + 1 =>
         LET checkpoint == LoadCheckpoint(ckpt)
         IN /\ resumed' =>
                  /\ pc' = "loop"
                  /\ \A k \in DOMAIN df' : SameTracking(df'[k], checkpoint.rows[k])
                  /\ Pending(df') = Pending(HeadSeq(checkpoint.rows, Len(df')))
            /\ (~checkpoint.found /\ pc' = "loop") =>
                  /\ ~resumed'
                  /\ \A k \in DOMAIN df' :
                        SameTracking(df'[k], InitEmbeddingTracking(LoadCsv(source))[k])]_vars

\* C16: every write of the checkpoint file stores the whole in-memory table
\* with its current tracking fields, and in a resumed run it keeps every row
\* the checkpoint held before, whatever --max-rows was given.
C16_WholeTableSnapshot ==
    [][ckpt' # ckpt =>
          /\ ckpt'.exists
          /\ ckpt'.rows = ToParquet(df')
          /\ resumed => \A k \in DOMAIN ckpt.rows : k \in DOMAIN ckpt'.rows]_vars

\* C17: loading the file that save_checkpoint has just written gives back the
\* saved table: the same rows in the same order with the same status, error
\* and timestamp values; and load_checkpoint finds nothing when there is no
\* file.
Saved == \E j \in DOMAIN NewEvents : NewEvents[j].op = "save"

DtNaiveNormalized == [date |-> "2024-11-01", time |-> "00:00:00", zone |-> "Z"]

C18_DatetimeNormalization ==
    [][(runs' = runs + 1 /\ ~resumed') =>
          /\ pc' = "loop"
          /\ \A k \in DOMAIN df' :
                /\ source[k] = DtNaive => df'[k].dt = DtNaiveNormalized
                /\ source[k] = DtOffset => df'[k].dt = DtOffset]_vars

\* C19: in every search mode, when the query's embedding is the failure
\* sentinel or the search service answers with a status other than 200, the
\* search function returns the empty result and the query script ends with a
\* non-zero exit status.
SearchFailed ==
    \E c \in DOMAIN cli.calls :
       \/ cli.calls[c].op = "get_embedding" /\ cli.calls[c].res = "None"
       \/ cli.calls[c].op = "search" /\ cli.calls[c].res = "response"
             /\ cli.calls[c].code # 200

C19_SearchFailureExitsNonZero ==
    (cli.prog = "search_index" /\ cli.pc = "exit" /\ SearchFailed) =>
       /\ cli.returns = <<Return(SearchFunction(cli.mode), "empty")>>
       /\ cli.exit = "nonzero"

\* C20: delete_index and create_index end every call with a boolean, never
\* with an exception, and the index script exits non-zero exactly when the
\* delete it ran before the create, or the create, returned False.
IndexOps == {"delete_index", "create_index"}

C20_IndexFailureDecidesExit ==
    (cli.prog = "create_index" /\ cli.pc = "exit") =>
       /\ \A r \in DOMAIN cli.returns :
             cli.returns[r].fn \in IndexOps => cli.returns[r].value \in {"True", "False"}
       /\ cli.exit = "nonzero" <=>
             \E r \in DOMAIN cli.returns :
                cli.returns[r].fn \in IndexOps /\ cli.returns[r].value = "False"

\* C21: delete_index returns True when the service answers 200 or 204 and
\* when it answers 404, and False on every other status, so a second call
\* right after a confirmed deletion (answered 404) succeeds like the first.
C21_DeleteIdempotent ==
    cli.prog = "delete_index" =>
       \A j \in DOMAIN cli.calls :
          cli.calls[j].res = "response" =>
             cli.returns[j].value =
                IF cli.calls[j].code \in {200, 204, 404} THEN "True" ELSE "False"

C21_Witness ==
    /\ cli.prog = "delete_index" /\ Len(cli.calls) = 2
    /\ cli.calls[1].code = 204 /\ cli.calls[2].code = 404
    /\ cli.returns[1].value = "True" /\ cli.returns[2].value = "True"

\* C22: a run that finds a required configuration variable unset, or that
\* goes to read the source and finds no CSV file, aborts there: it makes no
\* embedding call, no upload call and no checkpoint write, and takes no
\* further step.
StartupFailure(ev) ==
    \/ ev.op = "validate" /\ ev.detail = "missing_config"
    \/ ev.op = "load_csv" /\ ev.detail = "missing_csv"

C22_ValidationAbortsRun ==
    [][/\ (runs' = runs + 1 /\ \E j \in DOMAIN log' : StartupFailure(log'[j])) =>
             /\ pc' = "aborted"
             /\ ckpt' = ckpt
             /\ \A j \in DOMAIN log' : log'[j].op \notin {"embed", "upload", "save"}
       /\ pc = "aborted" => runs' = runs + 1]_vars

C22_Witness ==
    /\ pc = "aborted" /\ runs = 2 /\ ckpt.exists
    /\ \E j \in DOMAIN log : log[j].op = "load_csv" /\ log[j].res = "raise"

\* C23: a step of process_batch changes nothing of the table but the status,
\* error and timestamp of the row it is processing: every row keeps its
\* source fields and every other row keeps its tracking fields.
C23_OnlyTrackingOfCurrentRow ==
    [][(pc \in {"loop", "embed", "upload"} /\ pc' # "killed" /\ runs' = runs) =>
          /\ DOMAIN df' = DOMAIN df
          /\ \A k \in DOMAIN df :
                /\ df'[k].Id = df[k].Id
                /\ df'[k].dt = df[k].dt
                /\ (pc = "loop" \/ i = Len(batch) \/ k # batch[i + 1]) => df'[k] = df[k]]_vars

C23_Witness ==
    /\ pc = "embed" /\ Len(batch) = 2 /\ i = 1
    /\ df[batch[1]].status = "success" /\ df[batch[1]].dt = DtNaiveNormalized
    /\ df[batch[2]].status = "pending" /\ df[batch[2]].at = NaT
    /\ UploadedOk(batch[1])

\* C24: vector_search and hybrid_search send the search request only after
\* get_embedding has returned a vector for the query; when it returns None
\* no search request is sent and the function returns the empty result.
C24_SearchAfterEmbedding ==
    (cli.prog = "search_index" /\ cli.mode \in {"vector", "hybrid"}) =>
       /\ \A c \in DOMAIN cli.calls :
             cli.calls[c].op = "search" =>
                /\ c > 1
                /\ cli.calls[c - 1].op = "get_embedding"
                /\ cli.calls[c - 1].res = "vector"
       /\ (\E c \in DOMAIN cli.calls :
              cli.calls[c].op = "get_embedding" /\ cli.calls[c].res = "None") =>
             /\ \A c \in DOMAIN cli.calls : cli.calls[c].op # "search"
             /\ cli.returns = <<Return(SearchFunction(cli.mode), "empty")>>

C24_Witness ==
    /\ cli.prog = "search_index" /\ cli.mode = "hybrid" /\ Len(cli.calls) = 2
    /\ cli.calls[1] = Call("get_embedding", "vector", 0)
    /\ cli.calls[2].op = "search" /\ cli.calls[2].code = 200
    /\ cli.returns = <<Return("hybrid_search", "hits")>>

\* C25: in a run left to itself, if from some point on no embedding call and
\* no upload call fails, then once the run is in its batch loop it ends with
\* every row success (rows that failed are taken again by later batches).
FailStep ==
    \E j \in DOMAIN NewEvents :
       IsCall(NewEvents[j]) /\ NewEvents[j].res \notin {"vector", "True"}

C25_RunTerminates ==
    <>[][~FailStep]_vars => [](pc = "loop" => <>(pc = "done" /\ AllSuccess(df)))

\* C26: within a batch every row the loop has reached has exactly one
\* embedding call and at most one upload call, every upload call comes right
\* after the embedding call of the same row that returned a vector, and the
\* calls are made row after row in batch order, one at a time.
CallsOf(op, r) == {e \in DOMAIN log : log[e].op = op /\ log[e].row = r}

C26_OneCallAtATime ==
    /\ \A p \in DOMAIN batch :
          /\ Cardinality(CallsOf("embed", batch[p])) =
                IF p <= i \/ (p = i + 1 /\ pc \in {"upload", "crashed"}) THEN 1 ELSE 0
          /\ Cardinality(CallsOf("upload", batch[p])) <= 1
    /\ \A u \in DOMAIN log :
          log[u].op = "upload" =>
             /\ u > 1
             /\ log[u - 1].op = "embed"
             /\ log[u - 1].row = log[u].row
             /\ log[u - 1].res = "vector"
    /\ \A e1, e2 \in DOMAIN log :
          (IsCall(log[e1]) /\ IsCall(log[e2]) /\ e1 < e2) =>
             /\ PosInBatch(log[e1].row) > 0
             /\ PosInBatch(log[e1].row) <= PosInBatch(log[e2].row)

C26_Witness ==
    /\ pc = "embed" /\ Len(batch) = 2 /\ i = 2
    /\ \E e \in CallsOf("embed", batch[1]) : log[e].res = "vector"
    /\ Cardinality(CallsOf("upload", batch[1])) = 1
    /\ \E e \in CallsOf("embed", batch[2]) : log[e].res = "None"
    /\ CallsOf("upload", batch[2]) = {}

\* C27 (as stated): over batches and runs alike a success row stays success,
\* an attempted row never returns to pending and the number of success rows
\* never decreases: also a new run starts every row from the status the
\* checkpoint of the earlier runs holds for it.
SuccessCount(d) == Cardinality({k \in DOMAIN d : d[k].status = "success"})

MonotoneStep(old, new) ==
    /\ \A k \in DOMAIN old :
          /\ k \in DOMAIN new
          /\ old[k].status = "success" => new[k].status = "success"
          /\ old[k].status # "pending" => new[k].status # "pending"
    /\ SuccessCount(new) >= SuccessCount(old)

C27_StatusMonotone ==
    [][/\ (runs' = runs /\ pc' # "killed") => MonotoneStep(df, df')
       /\ (runs' = runs + 1 /\ pc' = "loop") =>
             MonotoneStep(LoadCheckpoint(ckpt).rows, df')]_vars

\* C27 (amended): status is monotone within a run, and across runs when the
\* next run is resumed from the checkpoint, for the rows that run keeps.
C27_StatusMonotoneWhenResumed ==
    [][/\ (runs' = runs /\ pc' # "killed") => MonotoneStep(df, df')
       /\ (runs' = runs + 1 /\ pc' = "loop" /\ resumed') =>
             MonotoneStep(HeadSeq(LoadCheckpoint(ckpt).rows, Len(df')), df')]_vars

C27_Witness ==
    /\ resumed /\ pc = "embed" /\ i >= 1
    /\ \E k \in DOMAIN df :
          /\ PosInBatch(k) = 0
          /\ df[k].status = "success"
          /\ LoadCheckpoint(ckpt).rows[k].status = "success"
    /\ \E k \in DOMAIN df : PosInBatch(k) > 0 /\ UploadedOk(k) /\ df[k].status = "success"

\* C28: format_datetime_column applied to a column it has already
\* normalized (the table of a run in progress, which a resumed run loads
\* back) raises nothing and leaves every value as it is.
C28_NormalizationIdempotent ==
    pc \in {"loop", "embed", "upload", "done"} =>
       /\ ~FormatRaises(df)
       /\ FormatDatetimeColumn(df) = df

====
